---- MODULE Spec2Model ----
(***************************************************************************)
(* rsgen: the library function gen_random_string_with_rng (src/lib.rs) and *)
(* the command line tool around it (src/main.rs).                          *)
(*                                                                         *)
(* Characters are code points.  A random source is its internal state; a   *)
(* draw advances the state and maps the new state into the range of the    *)
(* Uniform distribution it is sampled through.  Two callers drive the      *)
(* generator: main (the CLI) and a library client that calls the public    *)
(* function directly with any OutputCharsType value.                       *)
(***************************************************************************)
EXTENDS Integers, Sequences, FiniteSets, TLC

\* ------------------------------------------------------------------ bounds
MaxSeed == 127          \* seeds, and states of a random source, are 0..MaxSeed
MaxCount == 2           \* largest -c/--count value on the command line
MaxLines == 2           \* largest -l/--lines value on the command line
MaxLen == 2             \* largest length a library client asks for
MaxCalls == 2           \* calls a library client makes on one shared source

VARIABLES
    caller,                 \* "main" | "lib": who drives the generator
    pc,                     \* position of the running code
    args,                   \* the flags present on the command line
    count_arg, lines_arg,   \* the values of --count / --lines on the command line
    number_of_characters,
    number_of_lines,
    should_use_fast_rng,
    output_chars_type,
    is_stdout,
    rng,                    \* state of the random source in use
    seed,                   \* the seed that source was constructed from
    draws,                  \* samples taken from that source since construction
    requested,              \* sum of the lengths asked of that source
    range, charset, uniform,\* locals of gen_random_string_with_rng
    taken,                  \* items the take(n) adaptor has passed on
    indices,                \* the values sampled in the running call, in order
    s,                      \* the String being collected / returned
    i,                      \* enumerate()'s index in main
    stdout,                 \* the bytes written to standard output
    returned,               \* the strings the generator returned to main, in order
    calls,                  \* calls made by the library client
    golden,                 \* the first result a client kept for comparison
    replay                  \* the client is repeating the golden call

vars == <<caller, pc, args, count_arg, lines_arg, number_of_characters,
          number_of_lines, should_use_fast_rng, output_chars_type, is_stdout,
          rng, seed, draws, requested, range, charset, uniform, taken,
          indices, s, i, stdout, returned, calls, golden, replay>>

\* ------------------------------------------------------- OutputCharsType
Type(tag, up, lo) == [tag |-> tag, use_upper_case |-> up, use_lower_case |-> lo]

NoType == Type("None", FALSE, FALSE)

OutputCharsType ==
    { Type(t, u, l) : t \in {"LatinAlphabet", "LatinAlphabetAndNumeric"},
                      u \in BOOLEAN, l \in BOOLEAN }
    \cup { Type(t, FALSE, FALSE) :
             t \in {"Numeric", "PrintableAsciiWithoutSpace", "PrintableAsciiWithSpace"} }

IsLatin(t) == t.tag \in {"LatinAlphabet", "LatinAlphabetAndNumeric"}

\* ------------------------------------------------------------ characters
UPPER == [k \in 1..26 |-> 64 + k]       \* "ABCDEFGHIJKLMNOPQRSTUVWXYZ"
LOWER == [k \in 1..26 |-> 96 + k]       \* "abcdefghijklmnopqrstuvwxyz"
DIGITS == [k \in 1..10 |-> 47 + k]      \* "0123456789"
NEWLINE == 10

NoChar == -1                            \* Option::None of a char conversion
Unreachable == <<-1>>                   \* the unreachable!() arm of a charset match

\* std::char::from_digit(n, radix)
from_digit(n, radix) ==
    IF n < radix THEN (IF n < 10 THEN 48 + n ELSE 87 + n) ELSE NoChar

\* std::char::from_u32(u)
from_u32(u) ==
    IF u < 0 \/ u > 1114111 \/ (u >= 55296 /\ u <= 57343) THEN NoChar ELSE u

\* ---------------------------------------------------------- random source
RngMod == MaxSeed + 1
Seeds == 0..MaxSeed

\* a seeding that mixes in ambient process state besides the seed
seed_from_u64_ambient(sd) == (sd + calls) % RngMod

\* SeedableRng::seed_from_u64
seed_from_u64(sd) == sd % RngMod

\* one step of the generator: the state after producing a word
RngNext(x) == (5 * x + 3) % RngMod

\* Uniform::from(low..high) and Uniform::from(low..=high)
UniformExclusive(low, high) == [low |-> low, size |-> high - low]
UniformInclusive(low, high) == [low |-> low, size |-> high - low + 1]

\* Distribution::sample: the word r mapped into the distribution's range
Sample(u, r) == u.low + (r % u.size)

\* ------------------------------------------- gen_random_string_with_rng
\* the one-case arm of the range match written as the two-case one
LatinAlphabetRange_wide(up, lo) == 26 + 26

LatinAlphabetRange(up, lo) == IF up /\ lo THEN 26 + 26 ELSE 26

LatinAlphabetCharset(up, lo) ==
    CASE up /\ lo -> UPPER \o LOWER
      [] up /\ ~lo -> UPPER
      [] ~up /\ lo -> LOWER
      [] OTHER -> Unreachable

LatinAlphabetAndNumericRange(up, lo) == IF up /\ lo THEN 26 + 26 + 10 ELSE 26 + 10

LatinAlphabetAndNumericCharset(up, lo) ==
    CASE up /\ lo -> UPPER \o LOWER \o DIGITS
      [] up /\ ~lo -> UPPER \o DIGITS
      [] ~up /\ lo -> LOWER \o DIGITS
      [] OTHER -> Unreachable

\* the range without SPACE starting at 0x20
PrintableAsciiWithoutSpaceUniform_from_space == UniformInclusive(32, 126)

NumericUniform == UniformInclusive(0, 9)
PrintableAsciiWithoutSpaceUniform == UniformInclusive(33, 126)
PrintableAsciiWithSpaceUniform == UniformInclusive(32, 126)

RangeOf(t) ==
    CASE t.tag = "LatinAlphabet" ->
             LatinAlphabetRange(t.use_upper_case, t.use_lower_case)
      [] t.tag = "LatinAlphabetAndNumeric" ->
             LatinAlphabetAndNumericRange(t.use_upper_case, t.use_lower_case)
      [] OTHER -> 0

CharsetOf(t) ==
    CASE t.tag = "LatinAlphabet" ->
             LatinAlphabetCharset(t.use_upper_case, t.use_lower_case)
      [] t.tag = "LatinAlphabetAndNumeric" ->
             LatinAlphabetAndNumericCharset(t.use_upper_case, t.use_lower_case)
      [] OTHER -> <<>>

UniformOf(t) ==
    CASE IsLatin(t) -> UniformExclusive(0, RangeOf(t))
      [] t.tag = "Numeric" -> NumericUniform
      [] t.tag = "PrintableAsciiWithoutSpace" -> PrintableAsciiWithoutSpaceUniform
      [] OTHER -> PrintableAsciiWithSpaceUniform

NoUniform == [low |-> 0, size |-> 0]

\* the closure of map / filter_map applied to one sampled value n:
\* a code point, NoChar when filter_map drops it
MapSample(t, cs, n) ==
    CASE IsLatin(t) -> cs[n + 1]
      [] t.tag = "Numeric" -> from_digit(n, 10)
      [] OTHER -> from_u32(n)

\* charset[n] panics when n is out of bounds
IndexPanics(t, cs, n) == IsLatin(t) /\ (n < 0 \/ n >= Len(cs))

\* entry of the function: the match on output_chars_type, the range and the
\* charset table, then the Uniform distribution
GenEntry ==
    /\ pc = "gen_entry"
    /\ range' = RangeOf(output_chars_type)
    /\ IF IsLatin(output_chars_type) /\ CharsetOf(output_chars_type) = Unreachable
       THEN /\ pc' = "panic"
            /\ UNCHANGED <<charset, uniform>>
       ELSE /\ pc' = "sampling"
            /\ charset' = CharsetOf(output_chars_type)
            /\ uniform' = UniformOf(output_chars_type)
    /\ taken' = 0
    /\ indices' = <<>>
    /\ s' = <<>>
    /\ UNCHANGED <<caller, args, count_arg, lines_arg, number_of_characters,
                   number_of_lines, should_use_fast_rng, output_chars_type,
                   is_stdout, rng, seed, draws, requested, i, stdout, returned,
                   calls, golden, replay>>

\* one item pulled through sample_iter().take(n).map/filter_map().collect()
GenSample ==
    /\ pc = "sampling"
    /\ taken < number_of_characters
    /\ LET r == RngNext(rng)
           n == Sample(uniform, r)
       IN /\ rng' = r
          /\ draws' = draws + 1
          /\ taken' = taken + 1
          /\ indices' = Append(indices, n)
          /\ IF IndexPanics(output_chars_type, charset, n)
             THEN /\ pc' = "panic"
                  /\ s' = s
             ELSE /\ pc' = pc
                  /\ s' = IF MapSample(output_chars_type, charset, n) = NoChar
                          THEN s
                          ELSE Append(s, MapSample(output_chars_type, charset, n))
    /\ UNCHANGED <<caller, args, count_arg, lines_arg, number_of_characters,
                   number_of_lines, should_use_fast_rng, output_chars_type,
                   is_stdout, seed, requested, range, charset, uniform, i,
                   stdout, returned, calls, golden, replay>>

\* take(n) is exhausted: collect() yields the String and the function returns
GenReturn ==
    /\ pc = "sampling"
    /\ taken >= number_of_characters
    /\ pc' = "returned"
    /\ UNCHANGED <<caller, args, count_arg, lines_arg, number_of_characters,
                   number_of_lines, should_use_fast_rng, output_chars_type,
                   is_stdout, rng, seed, draws, requested, range, charset,
                   uniform, taken, indices, s, i, stdout, returned, calls,
                   golden, replay>>

\* ------------------------------------------------------------------ main
Flags == {"numeric", "printable-ascii", "printable-ascii-s", "fast",
          "only-upper-case", "only-lower-case", "only-latin-alphabet"}

\* the declarations without the conflict between the two case flags
ConflictsWith_no_case(a) ==
    CASE a = "numeric" -> {"printable-ascii", "printable-ascii-s"}
      [] a = "printable-ascii" -> {"numeric", "printable-ascii-s"}
      [] a = "printable-ascii-s" -> {"numeric", "printable-ascii"}
      [] a = "only-latin-alphabet" -> {"numeric", "printable-ascii", "printable-ascii-s"}
      [] OTHER -> {}

\* the conflicts_with / conflicts_with_all declaration of each argument
ConflictsWith(a) ==
    CASE a = "numeric" -> {"printable-ascii", "printable-ascii-s"}
      [] a = "printable-ascii" -> {"numeric", "printable-ascii-s"}
      [] a = "printable-ascii-s" -> {"numeric", "printable-ascii"}
      [] a = "only-upper-case" -> {"only-lower-case"}
      [] a = "only-lower-case" -> {"only-upper-case"}
      [] a = "only-latin-alphabet" -> {"numeric", "printable-ascii", "printable-ascii-s"}
      [] OTHER -> {}

\* fn argument_validator: the value parses as usize and is greater than 0
argument_validator(v) == v > 0

\* get_matches() exits with a usage error on a declared conflict or on a
\* value its validator refuses
Rejected(m, c, l) ==
    \/ \E a \in m : ConflictsWith(a) \cap m # {}
    \/ ~argument_validator(c)
    \/ ~argument_validator(l)

GetMatches ==
    /\ caller = "main"
    /\ pc = "start"
    /\ pc' = IF Rejected(args, count_arg, lines_arg) THEN "usage_error" ELSE "matched"
    /\ UNCHANGED <<caller, args, count_arg, lines_arg, number_of_characters,
                   number_of_lines, should_use_fast_rng, output_chars_type,
                   is_stdout, rng, seed, draws, requested, range, charset,
                   uniform, taken, indices, s, i, stdout, returned, calls,
                   golden, replay>>

UnreachableType == Type("unreachable", FALSE, FALSE)

\* the match on (is_upper_only, is_lower_only, is_latin_only)
OnlyMatch(is_upper_only, is_lower_only, is_latin_only) ==
    CASE is_upper_only /\ ~is_lower_only /\ is_latin_only ->
             Type("LatinAlphabet", TRUE, FALSE)
      [] is_upper_only /\ ~is_lower_only /\ ~is_latin_only ->
             Type("LatinAlphabetAndNumeric", TRUE, FALSE)
      [] ~is_upper_only /\ is_lower_only /\ is_latin_only ->
             Type("LatinAlphabet", FALSE, TRUE)
      [] ~is_upper_only /\ is_lower_only /\ ~is_latin_only ->
             Type("LatinAlphabetAndNumeric", FALSE, TRUE)
      [] ~is_upper_only /\ ~is_lower_only /\ is_latin_only ->
             Type("LatinAlphabet", TRUE, TRUE)
      [] ~is_upper_only /\ ~is_lower_only /\ ~is_latin_only ->
             Type("LatinAlphabetAndNumeric", TRUE, TRUE)
      [] OTHER -> UnreachableType

\* the if / else if chain that resolves the flags to one OutputCharsType
ResolveType(m) ==
    IF "numeric" \in m THEN Type("Numeric", FALSE, FALSE)
    ELSE IF "printable-ascii" \in m THEN Type("PrintableAsciiWithoutSpace", FALSE, FALSE)
    ELSE IF "printable-ascii-s" \in m THEN Type("PrintableAsciiWithSpace", FALSE, FALSE)
    ELSE OnlyMatch("only-upper-case" \in m, "only-lower-case" \in m,
                   "only-latin-alphabet" \in m)

\* the locals of main, up to the construction of the line iterator
Resolve ==
    /\ caller = "main"
    /\ pc = "matched"
    /\ number_of_characters' = count_arg
    /\ number_of_lines' = lines_arg
    /\ should_use_fast_rng' = ("fast" \in args)
    /\ IF ResolveType(args) = UnreachableType
       THEN /\ pc' = "panic"
            /\ UNCHANGED <<output_chars_type, is_stdout>>
       ELSE /\ pc' = "resolved"
            /\ output_chars_type' = ResolveType(args)
            /\ is_stdout' \in BOOLEAN
    /\ UNCHANGED <<caller, args, count_arg, lines_arg, rng, seed, draws,
                   requested, range, charset, uniform, taken, indices, s, i,
                   stdout, returned, calls, golden, replay>>

\* if should_use_fast_rng: XorShiftRng seeded with the clock's seconds
FastRng ==
    /\ caller = "main"
    /\ pc = "resolved"
    /\ should_use_fast_rng
    /\ \E now \in Seeds :
          /\ seed' = now
          /\ rng' = seed_from_u64(now)
    /\ pc' = "loop"
    /\ UNCHANGED <<caller, args, count_arg, lines_arg, number_of_characters,
                   number_of_lines, should_use_fast_rng, output_chars_type,
                   is_stdout, draws, requested, range, charset, uniform, taken,
                   indices, s, i, stdout, returned, calls, golden, replay>>

\* else: rand::thread_rng(), seeded by the operating system
ThreadRng ==
    /\ caller = "main"
    /\ pc = "resolved"
    /\ ~should_use_fast_rng
    /\ \E entropy \in Seeds :
          /\ seed' = entropy
          /\ rng' = entropy
    /\ pc' = "loop"
    /\ UNCHANGED <<caller, args, count_arg, lines_arg, number_of_characters,
                   number_of_lines, should_use_fast_rng, output_chars_type,
                   is_stdout, draws, requested, range, charset, uniform, taken,
                   indices, s, i, stdout, returned, calls, golden, replay>>

\* the iterator yields the next (): map's closure calls the generator
LineCall ==
    /\ caller = "main"
    /\ pc = "loop"
    /\ i < number_of_lines
    /\ pc' = "gen_entry"
    /\ requested' = requested + number_of_characters
    /\ UNCHANGED <<caller, args, count_arg, lines_arg, number_of_characters,
                   number_of_lines, should_use_fast_rng, output_chars_type,
                   is_stdout, rng, seed, draws, range, charset, uniform, taken,
                   indices, s, i, stdout, returned, calls, golden, replay>>

\* the closure's test comparing the index with the number of lines itself
OmitNewline_off_by_one(idx, lines, tty) == idx = lines /\ ~tty

\* the test of the printing closure: print! instead of println!
OmitNewline(idx, lines, tty) == idx = lines - 1 /\ ~tty

\* enumerate() pairs the string with its index and for_each prints it
Printing ==
    /\ caller = "main"
    /\ pc = "returned"
    /\ stdout' = IF OmitNewline(i, number_of_lines, is_stdout)
                 THEN stdout \o s
                 ELSE stdout \o s \o <<NEWLINE>>
    /\ returned' = Append(returned, s)
    /\ i' = i + 1
    /\ pc' = "loop"
    /\ UNCHANGED <<caller, args, count_arg, lines_arg, number_of_characters,
                   number_of_lines, should_use_fast_rng, output_chars_type,
                   is_stdout, rng, seed, draws, requested, range, charset,
                   uniform, taken, indices, s, calls, golden, replay>>

\* take(number_of_lines) is exhausted: main returns
Exit ==
    /\ caller = "main"
    /\ pc = "loop"
    /\ i >= number_of_lines
    /\ pc' = "exit"
    /\ UNCHANGED <<caller, args, count_arg, lines_arg, number_of_characters,
                   number_of_lines, should_use_fast_rng, output_chars_type,
                   is_stdout, rng, seed, draws, requested, range, charset,
                   uniform, taken, indices, s, i, stdout, returned, calls,
                   golden, replay>>

\* -------------------------------------------------------- library client
NoGolden == [set |-> FALSE, seed |-> 0, type |-> NoType, n |-> 0, s |-> <<>>]

\* a call of the public function on the client's source
ClientCall ==
    /\ caller = "lib"
    /\ pc = "client"
    /\ ~golden.set
    /\ calls < MaxCalls
    /\ \E t \in OutputCharsType, n \in 0..MaxLen :
          /\ output_chars_type' = t
          /\ number_of_characters' = n
          /\ requested' = requested + n
    /\ calls' = calls + 1
    /\ pc' = "gen_entry"
    /\ UNCHANGED <<caller, args, count_arg, lines_arg, number_of_lines,
                   should_use_fast_rng, is_stdout, rng, seed, draws, range,
                   charset, uniform, taken, indices, s, i, stdout, returned,
                   golden, replay>>

\* the client drops the result (the call's locals are gone) and goes on with
\* the same source
ClientDiscard ==
    /\ caller = "lib"
    /\ pc = "returned"
    /\ ~replay
    /\ pc' = "client"
    /\ output_chars_type' = NoType
    /\ number_of_characters' = 0
    /\ range' = 0
    /\ charset' = <<>>
    /\ uniform' = NoUniform
    /\ taken' = 0
    /\ indices' = <<>>
    /\ s' = <<>>
    /\ UNCHANGED <<caller, args, count_arg, lines_arg, number_of_lines,
                   should_use_fast_rng, is_stdout, rng, seed, draws, requested,
                   i, stdout, returned, calls, golden, replay>>

\* the client keeps the result of the first call on a freshly seeded source
ClientKeep ==
    /\ caller = "lib"
    /\ pc = "returned"
    /\ ~replay
    /\ calls = 1
    /\ golden' = [set |-> TRUE, seed |-> seed, type |-> output_chars_type,
                  n |-> number_of_characters, s |-> s]
    /\ pc' = "client"
    /\ UNCHANGED <<caller, args, count_arg, lines_arg, number_of_characters,
                   number_of_lines, should_use_fast_rng, output_chars_type,
                   is_stdout, rng, seed, draws, requested, range, charset,
                   uniform, taken, indices, s, i, stdout, returned, calls,
                   replay>>

\* the same call again, on a fresh source constructed from the same seed
ClientReplay ==
    /\ caller = "lib"
    /\ pc = "client"
    /\ golden.set
    /\ ~replay
    /\ replay' = TRUE
    /\ rng' = seed_from_u64(golden.seed)
    /\ draws' = 0
    /\ requested' = golden.n
    /\ output_chars_type' = golden.type
    /\ number_of_characters' = golden.n
    /\ calls' = calls + 1
    /\ pc' = "gen_entry"
    /\ UNCHANGED <<caller, args, count_arg, lines_arg, number_of_lines,
                   should_use_fast_rng, is_stdout, seed, range, charset,
                   uniform, taken, indices, s, i, stdout, returned, golden>>

\* -------------------------------------------------------- specification
InitCommon ==
    /\ number_of_characters = 0
    /\ number_of_lines = 0
    /\ should_use_fast_rng = FALSE
    /\ output_chars_type = NoType
    /\ is_stdout = FALSE
    /\ draws = 0
    /\ requested = 0
    /\ range = 0
    /\ charset = <<>>
    /\ uniform = NoUniform
    /\ taken = 0
    /\ indices = <<>>
    /\ s = <<>>
    /\ i = 0
    /\ stdout = <<>>
    /\ returned = <<>>
    /\ calls = 0
    /\ golden = NoGolden
    /\ replay = FALSE

\* the process started with some command line
InitMain ==
    /\ caller = "main"
    /\ pc = "start"
    /\ args \in SUBSET Flags
    /\ count_arg \in 0..MaxCount
    /\ lines_arg \in 0..MaxLines
    /\ rng = 0
    /\ seed = 0

\* a client holding a freshly seeded source
InitClient ==
    /\ caller = "lib"
    /\ pc = "client"
    /\ args = {}
    /\ count_arg = 0
    /\ lines_arg = 0
    /\ seed \in Seeds
    /\ rng = seed_from_u64(seed)

Init == InitCommon /\ (InitMain \/ InitClient)

Next ==
    \/ GetMatches
    \/ Resolve
    \/ FastRng
    \/ ThreadRng
    \/ LineCall
    \/ GenEntry
    \/ GenSample
    \/ GenReturn
    \/ Printing
    \/ Exit
    \/ ClientCall
    \/ ClientDiscard
    \/ ClientKeep
    \/ ClientReplay

Spec == Init /\ [][Next]_vars

\* ---------------------------------------------------------------- claims
BothFalse(t) == IsLatin(t) /\ ~t.use_upper_case /\ ~t.use_lower_case

\* the characters the specification allows for each OutputCharsType
Letters(t) ==
    (IF t.use_upper_case THEN 65..90 ELSE {}) \cup
    (IF t.use_lower_case THEN 97..122 ELSE {})

Members(t) ==
    CASE t.tag = "LatinAlphabet" -> Letters(t)
      [] t.tag = "LatinAlphabetAndNumeric" ->
             IF BothFalse(t) THEN {} ELSE Letters(t) \cup (48..57)
      [] t.tag = "Numeric" -> 48..57
      [] t.tag = "PrintableAsciiWithoutSpace" -> 33..126
      [] t.tag = "PrintableAsciiWithSpace" -> 32..126
      [] OTHER -> {}

\* the table size the specification gives for each Latin variant
TableSize(t) ==
    (IF t.use_upper_case /\ t.use_lower_case THEN 52 ELSE 26)
    + (IF t.tag = "LatinAlphabetAndNumeric" THEN 10 ELSE 0)

InCall == output_chars_type \in OutputCharsType

\* C1: for every OutputCharsType value and every length, a call that has
\* ended has returned a string of exactly the requested length.
C1_ExactLength ==
    (InCall /\ pc \in {"returned", "panic"})
        => (pc = "returned" /\ Len(s) = number_of_characters)

\* C2: every character of a returned string (and of the string while it is
\* collected) is a member of the charset its OutputCharsType implies.
C2_CharsInCharset ==
    (InCall /\ pc \in {"sampling", "returned"})
        => \A k \in 1..Len(s) : s[k] \in Members(output_chars_type)

\* C2 witness: a call for PrintableAsciiWithSpace returned SPACE and TILDE.
C2_Witness ==
    /\ pc = "returned"
    /\ output_chars_type.tag = "PrintableAsciiWithSpace"
    /\ s = <<32, 126>>

\* C3: with both case flags false the Latin variants use the two-case table
\* (52 resp. 62 symbols) and draw over [0,52) resp. [0,62), as for both true.
C3_BothFalseFallsBack ==
    (BothFalse(output_chars_type) /\ pc # "gen_entry")
        => LET both == Type(output_chars_type.tag, TRUE, TRUE)
           IN /\ pc # "panic"
              /\ charset = CharsetOf(both)
              /\ range = TableSize(both)
              /\ uniform = UniformExclusive(0, TableSize(both))

\* C4: the function is total: no call panics, and no call returns a string
\* shorter than asked.
C4_Total ==
    InCall => /\ pc # "panic"
              /\ (pc = "returned" => Len(s) = number_of_characters)

\* C5: a call with length 0 goes through to its return with the empty
\* string, takes no draw and leaves the source's state unchanged.
C5_ZeroLength ==
    [][(InCall /\ number_of_characters = 0 /\ pc \in {"gen_entry", "sampling"})
          => /\ pc' = (IF pc = "gen_entry" THEN "sampling" ELSE "returned")
             /\ s' = <<>>
             /\ rng' = rng
             /\ draws' = draws]_vars

CharsetFlags == {"numeric", "printable-ascii", "printable-ascii-s"}
OnlyFlags == {"only-upper-case", "only-lower-case", "only-latin-alphabet"}

SpecConflict(m) ==
    \/ Cardinality(m \cap CharsetFlags) >= 2
    \/ (m \cap CharsetFlags # {} /\ m \cap OnlyFlags # {})
    \/ {"only-upper-case", "only-lower-case"} \subseteq m

\* C7: no command line holding a mutually exclusive flag combination is
\* accepted by get_matches.
C7_RejectsConflicts ==
    (caller = "main" /\ pc \notin {"start", "usage_error"}) => ~SpecConflict(args)

\* the stream of the first k of the lines: each followed by a newline, the
\* last of all omitted when standard output is no terminal
RECURSIVE Emitted(_, _, _, _)
Emitted(strings, k, lines, tty) ==
    IF k = 0 THEN <<>>
    ELSE Emitted(strings, k - 1, lines, tty) \o strings[k]
         \o (IF k = lines /\ ~tty THEN <<>> ELSE <<NEWLINE>>)

\* C8: main calls the generator once per line, in order, and writes each
\* string followed by a newline, except the last one when standard output is
\* no terminal.
C8_LineTermination ==
    (caller = "main" /\ pc \in {"loop", "gen_entry", "sampling", "returned", "exit"})
        => /\ Len(returned) = i
           /\ i <= number_of_lines
           /\ (pc = "exit" => i = number_of_lines)
           /\ requested = number_of_characters
                            * (IF pc \in {"loop", "exit"} THEN i ELSE i + 1)
           /\ stdout = Emitted(returned, i, number_of_lines, is_stdout)

\* C8 witness: a run of two lines into a pipe has ended; the stream does not
\* end with a newline.
C8_Witness ==
    /\ caller = "main"
    /\ pc = "exit"
    /\ number_of_lines = 2
    /\ ~is_stdout
    /\ Len(returned) = 2
    /\ stdout = returned[1] \o <<NEWLINE>> \o returned[2]

\* C9: main never constructs a Latin variant with both case flags false, no
\* case restriction resolves to both cases, and neither the resolution nor a
\* generator call made by main reaches an unreachable arm.
C9_NeverEmptyCharset ==
    (caller = "main" /\ pc \notin {"start", "usage_error", "matched"})
        => /\ pc # "panic"
           /\ output_chars_type \in OutputCharsType
           /\ ~BothFalse(output_chars_type)
           /\ (IsLatin(output_chars_type)
                 /\ args \cap {"only-upper-case", "only-lower-case"} = {}
               => output_chars_type.use_upper_case /\ output_chars_type.use_lower_case)

\* C9 witness: a run without any flag went through its calls with the
\* two-case alphanumeric table.
C9_Witness ==
    /\ caller = "main"
    /\ pc = "exit"
    /\ args = {}
    /\ output_chars_type = Type("LatinAlphabetAndNumeric", TRUE, TRUE)
    /\ Len(returned) = 2

\* C10: a Latin call with a case flag set takes one draw per character over
\* [0, tableSize), tableSize being the length of the selected table (26, 52,
\* 36 or 62); every index is in bounds, the k-th character is the table entry
\* at the k-th index, and the source has advanced by the sum of the lengths
\* asked of it.
C10_OneDrawPerCharacter ==
    (IsLatin(output_chars_type) /\ ~BothFalse(output_chars_type)
       /\ pc \in {"sampling", "returned"})
        => /\ Len(charset) = TableSize(output_chars_type)
           /\ range = Len(charset)
           /\ uniform = UniformExclusive(0, Len(charset))
           /\ Len(indices) = taken
           /\ Len(s) = taken
           /\ \A k \in 1..Len(indices) :
                 /\ indices[k] \in 0..(Len(charset) - 1)
                 /\ s[k] = charset[indices[k] + 1]
           /\ draws = requested - number_of_characters + taken
           /\ (pc = "returned" => taken = number_of_characters)

\* C10 witness: the second call on a shared source, for the upper case table,
\* has returned two characters; the source stands at four draws.
C10_Witness ==
    /\ pc = "returned"
    /\ output_chars_type = Type("LatinAlphabet", TRUE, FALSE)
    /\ number_of_characters = 2
    /\ Len(s) = 2
    /\ draws = 4
    /\ requested = 4

====
